---------------------------- MODULE Spec2Model ----------------------------
(***************************************************************************)
(* Student progress monitoring: the normaliser (CWPreprocessing.py) that   *)
(* turns seven raw CSV exports into seven SQLite tables, and the three     *)
(* read-side analyses (studentPerformance.py, testResults.py,              *)
(* underperformingStudent.py) that read those tables back.                 *)
(*                                                                         *)
(* A CSV cell is text: a sequence of one-character strings.  A DataFrame   *)
(* cell is a number, a string or NaN.  Numbers are integers: the binary    *)
(* floating point of fractional grades is outside this model.              *)
(***************************************************************************)
EXTENDS Integers, Sequences, FiniteSets, TLC

VARIABLES files, tieOrder, store, op, status, pc, conn, err, result, runs,
          storeAtStart, storeAfterFirst

vars == <<files, tieOrder, store, op, status, pc, conn, err, result, runs,
          storeAtStart, storeAfterFirst>>

-----------------------------------------------------------------------------
(* Bounds of the model.                                                    *)

MaxRows == 3

MaxRuns == 2

-----------------------------------------------------------------------------
(* Text, cells and column labels.                                          *)

Range(f) == {f[i] : i \in DOMAIN f}

\* The function f itself, written out value by value (TLC then holds its
\* values instead of the expression that gives them).
Eager(f) == f @@ <<>>

Digits == <<"0", "1", "2", "3", "4", "5", "6", "7", "8", "9">>

IsDigit(ch) == \E d \in 1..10 : Digits[d] = ch

DigitVal(ch) == (CHOOSE d \in 1..10 : Digits[d] = ch) - 1

\* The characters the model's texts are written in, each with its code point.
CodePoints ==
    <<<<"-", 45>>, <<"M", 77>>, <<"R", 82>>, <<"S", 83>>, <<"T", 84>>,
      <<"_", 95>>, <<"a", 97>>, <<"b", 98>>, <<"c", 99>>, <<"d", 100>>,
      <<"e", 101>>, <<"k", 107>>, <<"m", 109>>, <<"n", 110>>, <<"o", 111>>,
      <<"s", 115>>, <<"t", 116>>, <<"u", 117>>, <<"z", 122>>>>

\* The code point of a character, the order Python compares strings by.
Ord(ch) ==
    IF IsDigit(ch) THEN 48 + DigitVal(ch)
    ELSE (CHOOSE p \in Range(CodePoints) : p[1] = ch)[2]

\* s < t for Python strings: the first differing character decides, a proper
\* prefix is smaller.
LexLess(s, t) ==
    \E k \in 1..Len(t) :
        /\ \A j \in 1..(k - 1) : j <= Len(s) /\ s[j] = t[j]
        /\ (k = Len(s) + 1 \/ (k <= Len(s) /\ Ord(s[k]) < Ord(t[k])))

AllDigits(s) == \A j \in 1..Len(s) : IsDigit(s[j])

\* A text that the CSV parser and pd.to_numeric read as an integer.
IsNumber(s) ==
    /\ Len(s) >= 1
    /\ IF s[1] = "-" THEN Len(s) >= 2 /\ AllDigits(Tail(s)) ELSE AllDigits(s)

RECURSIVE DigitsValue(_)
DigitsValue(s) ==
    IF s = <<>> THEN 0
    ELSE 10 * DigitsValue(SubSeq(s, 1, Len(s) - 1)) + DigitVal(s[Len(s)])

ParseNumber(s) == IF s[1] = "-" THEN 0 - DigitsValue(Tail(s)) ELSE DigitsValue(s)

Num(n) == [k |-> "num", n |-> n, s |-> <<>>]

Str(s) == [k |-> "str", n |-> 0, s |-> s]

NaN == [k |-> "nan", n |-> 0, s |-> <<>>]

\* A column label: its name and the blanks around it in the file's header.
Padded(l, name, r) == [lpad |-> l, name |-> name, rpad |-> r]

L(name) == Padded(0, name, 0)

-----------------------------------------------------------------------------
(* DataFrames: a set of column labels and a sequence of rows, each row its  *)
(* index label and its cells.                                              *)

\* pd.read_csv: a column whose non-empty cells are all numbers is numeric,
\* any other column holds its cells as strings; an empty cell is NaN.
read_csv(csv) ==
    LET cols == Range(csv.header)
        pos(c) == CHOOSE j \in DOMAIN csv.header : csv.header[j] = c
        numeric(j) == \A i \in DOMAIN csv.rows :
                          csv.rows[i][j] = <<>> \/ IsNumber(csv.rows[i][j])
        cell(i, j) == IF csv.rows[i][j] = <<>> THEN NaN
                      ELSE IF numeric(j) THEN Num(ParseNumber(csv.rows[i][j]))
                      ELSE Str(csv.rows[i][j])
    IN  [columns |-> cols,
         rows |-> Eager([i \in DOMAIN csv.rows |->
                     [index |-> i - 1,
                      cells |-> Eager([c \in cols |-> cell(i, pos(c))])]])]

\* df.columns = [f(c) for c in df.columns]
Relabel(df, f(_)) ==
    LET cols == {f(c) : c \in df.columns}
        old(c2) == CHOOSE c \in df.columns : f(c) = c2
    IN  [columns |-> cols,
         rows |-> Eager([i \in DOMAIN df.rows |->
                     [index |-> df.rows[i].index,
                      cells |-> Eager([c2 \in cols |-> df.rows[i].cells[old(c2)]])]])]

strip(c) == L(c.name)

strip_column_names(df) == Relabel(df, strip)

apply_rename(df, rename_map) ==
    LET f(c) == IF c.lpad = 0 /\ c.rpad = 0 /\ c.name \in DOMAIN rename_map
                THEN L(rename_map[c.name]) ELSE c
    IN  Relabel(df, f)

\* Every required column reported as soon as one is missing.
check_required_columns_all(df, required) ==
    IF \E i \in DOMAIN required : L(required[i]) \notin df.columns
    THEN required ELSE <<>>

\* The required columns that are missing, in the order asked for.
check_required_columns(df, required) ==
    SelectSeq(required, LAMBDA c : L(c) \notin df.columns)

-----------------------------------------------------------------------------
(* Sorting.  A row sequence is ordered by a strict order on its rows.      *)

\* The rows in the order Before puts them.
SortRows(rows, Before(_, _)) ==
    LET R == Range(rows)
    IN  Eager([p \in 1..Len(rows) |->
            CHOOSE r \in R : Cardinality({q \in R : Before(q, r)}) = p - 1])

\* The rows at positions p with Keep(p), in order.
RECURSIVE FilterPositions(_, _, _)
FilterPositions(rows, Keep(_), n) ==
    IF n = 0 THEN <<>>
    ELSE IF Keep(n) THEN Append(FilterPositions(rows, Keep, n - 1), rows[n])
    ELSE FilterPositions(rows, Keep, n - 1)

\* x < y for two cells of one kind.
CellLess(x, y) == IF x.k = "num" THEN x.n < y.n ELSE LexLess(x.s, y.s)

\* Python can order the non-NaN cells of the column: they are of one kind.
Comparable(df, col) ==
    \A i, j \in DOMAIN df.rows :
        \/ df.rows[i].cells[col].k = "nan"
        \/ df.rows[j].cells[col].k = "nan"
        \/ df.rows[i].cells[col].k = df.rows[j].cells[col].k

\* Equal keys: quicksort is not stable, the build decides which comes first.
TieBefore(q, r) == IF tieOrder = "first" THEN q.index < r.index ELSE q.index > r.index

\* df.sort_values(col, ascending=False): NaN last, in their original order.
sort_values_descending(df, col) ==
    LET key(r) == r.cells[col]
        Before(q, r) ==
            IF key(q).k = "nan" THEN key(r).k = "nan" /\ q.index < r.index
            ELSE IF key(r).k = "nan" THEN TRUE
            ELSE \/ CellLess(key(r), key(q))
                 \/ (key(q) = key(r) /\ TieBefore(q, r))
    IN  [df EXCEPT !.rows = SortRows(df.rows, Before)]

\* df.drop_duplicates(subset=[col], keep="first"); NaN equals NaN here.
drop_duplicates(df, col) ==
    LET Keep(p) == \A q \in 1..(p - 1) :
                       df.rows[q].cells[col] # df.rows[p].cells[col]
    IN  [df EXCEPT !.rows = FilterPositions(df.rows, Keep, Len(df.rows))]

sort_index(df) ==
    LET Before(q, r) == q.index < r.index
    IN  [df EXCEPT !.rows = SortRows(df.rows, Before)]

keep_best_attempt(df) ==
    sort_index(drop_duplicates(sort_values_descending(df, L("Grade")),
                               L("research_id")))

-----------------------------------------------------------------------------
(* Cleaning and scaling.                                                   *)

\* Every cell of the given columns replaced by f of it.
MapCells(df, cols, f(_, _)) ==
    [df EXCEPT !.rows =
        Eager([i \in DOMAIN df.rows |->
            [df.rows[i] EXCEPT !.cells =
                Eager([c \in df.columns |->
                    IF c \in cols THEN f(c, df.rows[i].cells[c])
                    ELSE df.rows[i].cells[c]])]])]

\* Nothing dropped.
remove_redundant_columns_none(df, cols_to_drop) == df

remove_redundant_columns(df, cols_to_drop) ==
    LET existing == {L(c) : c \in cols_to_drop} \cap df.columns
        kept == df.columns \ existing
    IN  [columns |-> kept,
         rows |-> Eager([i \in DOMAIN df.rows |->
                     [index |-> df.rows[i].index,
                      cells |-> Eager([c \in kept |-> df.rows[i].cells[c]])]])]

\* pd.to_numeric(errors="coerce"): what does not parse becomes NaN.
to_numeric(x) ==
    IF x.k = "str" THEN (IF IsNumber(x.s) THEN Num(ParseNumber(x.s)) ELSE NaN)
    ELSE x

\* fillna(0) left out: what does not parse stays NaN.
fillna_kept(x, v) == x

fillna(x, v) == IF x.k = "nan" THEN Num(v) ELSE x

clean_numeric_columns(df, columns) ==
    LET replace(c, x) == IF x = Str(<<"-">>) THEN Num(0) ELSE x
        numeric(c, x) == fillna(to_numeric(x), 0)
        replaced == MapCells(df, df.columns, replace)
    IN  MapCells(replaced, {L(c) : c \in columns}, numeric)

\* The quotient cut off instead of rounded.
RoundDown(a, b) == a \div b

\* round() of the quotient a / b, b > 0: to the nearest integer, a half to
\* the even one.
Round(a, b) ==
    LET q == a \div b
        r == a % b
    IN  IF 2 * r > b THEN q + 1
        ELSE IF 2 * r < b THEN q
        ELSE IF q % 2 = 0 THEN q ELSE q + 1

\* (x * (a / b)).round().astype("Int64"); NaN stays missing.
Scaled(x, a, b) == IF x.k = "nan" THEN NaN ELSE Num(Round(x.n * a, b))

normalise_grade_to_10000(df, grade_total) ==
    LET scale(c, x) == Scaled(x, 10000, grade_total)
    IN  MapCells(df, {L("Grade")}, scale)

scale_cols_to_100(df, cols) ==
    LET scale(c, x) == Scaled(x, 100, 1)
    IN  MapCells(df, {L(c) : c \in cols}, scale)

scale_cols_to_10000(df, col_to_maxscore) ==
    LET scale(c, x) == Scaled(x, 10000, col_to_maxscore[c.name])
    IN  MapCells(df, {L(c) : c \in DOMAIN col_to_maxscore}, scale)

\* df["Grade"] = df["Grade"].round().astype("Int64")
round_grade(df) ==
    LET scale(c, x) == Scaled(x, 1, 1)
    IN  MapCells(df, {L("Grade")}, scale)

-----------------------------------------------------------------------------
(* The seven pipelines.  A pipeline returns the cleaned DataFrame or raises. *)

rename_map_test_1 ==
    ("research id" :> "research_id") @@
    ("Started on" :> "Started_on") @@
    ("Time taken" :> "Time_taken") @@
    ("Grade/600" :> "Grade") @@
    ("Q 1 /100" :> "Q1") @@
    ("Q 2 /100" :> "Q2") @@
    ("Q 3 /100" :> "Q3") @@
    ("Q 4 /100" :> "Q4") @@
    ("Q 5 /100" :> "Q5") @@
    ("Q 6 /100" :> "Q6")

rename_map_test_2 ==
    ("research id" :> "research_id") @@
    ("Started on" :> "Started_on") @@
    ("Time taken" :> "Time_taken") @@
    ("Grade/700" :> "Grade") @@
    ("Q 1 /100" :> "Q1") @@
    ("Q 2 /100" :> "Q2") @@
    ("Q 3 /100" :> "Q3") @@
    ("Q 4 /200" :> "Q4") @@
    ("Q 5 /100" :> "Q5") @@
    ("Q 6 /100" :> "Q6")

rename_map_test_3 ==
    ("research id" :> "research_id") @@
    ("Started on" :> "Started_on") @@
    ("Time taken" :> "Time_taken") @@
    ("Grade/600" :> "Grade") @@
    ("Q 1 /100" :> "Q1") @@
    ("Q 2 /100" :> "Q2") @@
    ("Q 3 /100" :> "Q3") @@
    ("Q 4 /100" :> "Q4") @@
    ("Q 5 /100" :> "Q5") @@
    ("Q 6 /100" :> "Q6")

rename_map_test_4 ==
    ("research id" :> "research_id") @@
    ("Started on" :> "Started_on") @@
    ("Time taken" :> "Time_taken") @@
    ("Grade/1000" :> "Grade") @@
    ("Q 1 /500" :> "Q1") @@
    ("Q 2 /500" :> "Q2")

rename_map_mock_test ==
    ("research id" :> "research_id") @@
    ("Started on" :> "Started_on") @@
    ("Time taken" :> "Time_taken") @@
    ("Grade/10000" :> "Grade") @@
    ("Q 1 /500" :> "Q1") @@
    ("Q 2 /300" :> "Q2") @@
    ("Q 3 /600" :> "Q3") @@
    ("Q 4 /700" :> "Q4") @@
    ("Q 5 /500" :> "Q5") @@
    ("Q 6 /400" :> "Q6") @@
    ("Q 7 /1000" :> "Q7") @@
    ("Q 8 /2000" :> "Q8") @@
    ("Q 9 /2000" :> "Q9") @@
    ("Q 10 /2000" :> "Q10")

rename_map_sum_test ==
    ("research id" :> "research_id") @@
    ("Started on" :> "Started_on") @@
    ("Time taken" :> "Time_taken") @@
    ("Grade/10000" :> "Grade") @@
    ("Q 1 /500" :> "Q1") @@
    ("Q 2 /300" :> "Q2") @@
    ("Q 3 /600" :> "Q3") @@
    ("Q 4 /700" :> "Q4") @@
    ("Q 5 /400" :> "Q5") @@
    ("Q 6 /500" :> "Q6") @@
    ("Q 7 /1500" :> "Q7") @@
    ("Q 8 /1500" :> "Q8") @@
    ("Q 9 /1500" :> "Q9") @@
    ("Q 10 /1000" :> "Q10") @@
    ("Q 11 /400" :> "Q11") @@
    ("Q 12 /500" :> "Q12") @@
    ("Q 13 /600" :> "Q13")

NoError == [kind |-> "none", table |-> "", missing |-> <<>>]

NoFrame == [columns |-> {}, rows |-> <<>>]

Returned(df) == [ok |-> TRUE, error |-> NoError, df |-> df]

Raised(kind, table, missing) ==
    [ok |-> FALSE, error |-> [kind |-> kind, table |-> table, missing |-> missing],
     df |-> NoFrame]

Required == <<"research_id", "Grade">>

\* read_csv, strip_column_names and apply_rename: the frame that
\* check_required_columns is given.
Renamed(csv, rename_map) ==
    apply_rename(strip_column_names(read_csv(csv)), rename_map)

\* The steps every rename/scale pipeline shares: the required columns are
\* checked, the best attempt kept (sorting a Grade column that mixes numbers
\* and strings is a TypeError), the metadata dropped, the numbers cleaned;
\* then the pipeline's own scaling.
Pipeline(csv, rename_map, table_name, cols_numeric, Scale(_)) ==
    LET df == Renamed(csv, rename_map)
        missing == check_required_columns(df, Required)
    IN  IF missing # <<>> THEN Raised("KeyError", table_name, missing)
        ELSE IF ~Comparable(df, L("Grade")) THEN Raised("TypeError", table_name, <<>>)
        ELSE Returned(Scale(clean_numeric_columns(
                 remove_redundant_columns(keep_best_attempt(df),
                                          {"State", "Time_taken"}),
                 cols_numeric)))

preprocess_test_1(csv) ==
    LET Scale(df) == scale_cols_to_100(normalise_grade_to_10000(df, 600), {"Q1", "Q2", "Q3", "Q4", "Q5", "Q6"})
    IN  Pipeline(csv, rename_map_test_1, "Test_1", {"Grade", "Q1", "Q2", "Q3", "Q4", "Q5", "Q6"}, Scale)

preprocess_test_2(csv) ==
    LET Scale(df) ==
            scale_cols_to_10000(
                scale_cols_to_100(normalise_grade_to_10000(df, 700), {"Q1", "Q2", "Q3", "Q5", "Q6"}),
                ("Q4" :> 200))
    IN  Pipeline(csv, rename_map_test_2, "Test_2", {"Grade", "Q1", "Q2", "Q3", "Q4", "Q5", "Q6"}, Scale)

preprocess_test_3(csv) ==
    LET Scale(df) == scale_cols_to_100(normalise_grade_to_10000(df, 600), {"Q1", "Q2", "Q3", "Q4", "Q5", "Q6"})
    IN  Pipeline(csv, rename_map_test_3, "Test_3", {"Grade", "Q1", "Q2", "Q3", "Q4", "Q5", "Q6"}, Scale)

preprocess_test_4(csv) ==
    LET Scale(df) ==
            scale_cols_to_10000(normalise_grade_to_10000(df, 1000),
                                ("Q1" :> 500) @@ ("Q2" :> 500))
    IN  Pipeline(csv, rename_map_test_4, "Test_4", {"Grade", "Q1", "Q2"}, Scale)

preprocess_mock_test(csv) ==
    LET Scale(df) ==
            scale_cols_to_10000(
                scale_cols_to_10000(
                    scale_cols_to_10000(round_grade(df), ("Q1" :> 500) @@ ("Q5" :> 500)),
                    ("Q8" :> 2000) @@ ("Q9" :> 2000) @@ ("Q10" :> 2000)),
                ("Q2" :> 300) @@ ("Q3" :> 600) @@ ("Q4" :> 700) @@ ("Q6" :> 400) @@ ("Q7" :> 1000))
    IN  Pipeline(csv, rename_map_mock_test, "Mock_Test", {"Grade", "Q1", "Q2", "Q3", "Q4", "Q5", "Q6", "Q7", "Q8", "Q9", "Q10"}, Scale)

\* Student_Rate is passed through: only df.fillna(0).
preprocess_student_rate(csv) ==
    LET df == strip_column_names(read_csv(csv))
        fill(c, x) == fillna(x, 0)
    IN  Returned(MapCells(df, df.columns, fill))

preprocess_sum_test(csv) ==
    LET Scale(df) ==
            scale_cols_to_10000(round_grade(df),
                ("Q1" :> 500) @@ ("Q2" :> 300) @@ ("Q3" :> 600) @@ ("Q4" :> 700) @@ ("Q5" :> 400) @@ ("Q6" :> 500) @@ ("Q7" :> 1500) @@
                ("Q8" :> 1500) @@ ("Q9" :> 1500) @@ ("Q10" :> 1000) @@ ("Q11" :> 400) @@ ("Q12" :> 500) @@ ("Q13" :> 600))
    IN  Pipeline(csv, rename_map_sum_test, "Sum_Test", {"Grade", "Q1", "Q2", "Q3", "Q4", "Q5", "Q6", "Q7", "Q8", "Q9", "Q10", "Q11", "Q12", "Q13"}, Scale)

-----------------------------------------------------------------------------
(* The store: one SQLite file, a table or nothing under each name.         *)

RunOrder ==
    <<"Test_1", "Test_2", "Test_3", "Test_4", "Mock_Test", "Student_Rate",
      "Sum_Test">>

TableNames == Range(RunOrder)

Pipelined == TableNames \ {"Student_Rate"}

NoTable == [exists |-> FALSE, columns |-> {}, rows |-> <<>>]

EmptyStore == [t \in TableNames |-> NoTable]

\* The rows of a frame as SQLite keeps them: index=False drops the index.
Stored(df) ==
    [exists |-> TRUE, columns |-> df.columns,
     rows |-> Eager([i \in DOMAIN df.rows |-> df.rows[i].cells])]

\* if_exists="append": the rows added to those the table holds.
write_table_append(st, df, table_name) ==
    IF st[table_name].exists
    THEN [st EXCEPT ![table_name].rows = @ \o Stored(df).rows]
    ELSE [st EXCEPT ![table_name] = Stored(df)]

\* df.to_sql(table_name, conn, if_exists="replace", index=False)
write_table(st, df, table_name) == [st EXCEPT ![table_name] = Stored(df)]

\* pd.read_sql_query("SELECT ... FROM table"): the rows, indexed from 0.
read_table(st, table_name) ==
    [columns |-> st[table_name].columns,
     rows |-> Eager([i \in DOMAIN st[table_name].rows |->
                 [index |-> i - 1, cells |-> st[table_name].rows[i]]])]

\* The pipeline of one assessment on the file configured for it.
preprocess(fs, t) ==
    CASE t = "Test_1" -> preprocess_test_1(fs[t])
      [] t = "Test_2" -> preprocess_test_2(fs[t])
      [] t = "Test_3" -> preprocess_test_3(fs[t])
      [] t = "Test_4" -> preprocess_test_4(fs[t])
      [] t = "Mock_Test" -> preprocess_mock_test(fs[t])
      [] t = "Student_Rate" -> preprocess_student_rate(fs[t])
      [] t = "Sum_Test" -> preprocess_sum_test(fs[t])

-----------------------------------------------------------------------------
(* CWPreprocessor.run, one step per statement.                             *)

NoResult == [kind |-> "none", rows |-> <<>>]

\* conn = sqlite3.connect(self.db_path)
RunConnect ==
    /\ status # "running"
    /\ runs < MaxRuns
    /\ op' = "run"
    /\ status' = "running"
    /\ pc' = 1
    /\ conn' = "open"
    /\ err' = NoError
    /\ result' = NoResult
    /\ runs' = runs + 1
    /\ storeAtStart' = store
    /\ UNCHANGED <<files, tieOrder, store, storeAfterFirst>>

\* The statements after the i-th with what raises caught: every table that
\* can be made is written.
RECURSIVE WriteRest(_, _, _)
WriteRest(fs, st, i) ==
    IF i > Len(RunOrder) THEN st
    ELSE LET r == preprocess(fs, RunOrder[i])
         IN  WriteRest(fs, IF r.ok THEN write_table(st, r.df, RunOrder[i]) ELSE st,
                       i + 1)

\* run with each write in a try of its own, the first error raised at the end.
RunWrite_carrying_on ==
    /\ op = "run"
    /\ status = "running"
    /\ pc \in 1..Len(RunOrder)
    /\ LET t == RunOrder[pc]
           r == preprocess(files, t)
       IN  IF r.ok
           THEN /\ store' = write_table(store, r.df, t)
                /\ pc' = pc + 1
                /\ UNCHANGED <<status, err, storeAfterFirst>>
           ELSE /\ store' = WriteRest(files, store, pc + 1)
                /\ status' = "raised"
                /\ err' = r.error
                /\ storeAfterFirst' = IF runs = 1 THEN store' ELSE storeAfterFirst
                /\ UNCHANGED pc
    /\ UNCHANGED <<files, tieOrder, op, conn, result, runs, storeAtStart>>

\* self.write_table(conn, self.preprocess_x(), "X"): the argument is
\* evaluated first, and what it raises leaves run at once.
RunWrite ==
    /\ op = "run"
    /\ status = "running"
    /\ pc \in 1..Len(RunOrder)
    /\ LET t == RunOrder[pc]
           r == preprocess(files, t)
       IN  IF r.ok
           THEN /\ store' = write_table(store, r.df, t)
                /\ pc' = pc + 1
                /\ UNCHANGED <<status, err, storeAfterFirst>>
           ELSE /\ status' = "raised"
                /\ err' = r.error
                /\ storeAfterFirst' = IF runs = 1 THEN store ELSE storeAfterFirst
                /\ UNCHANGED <<store, pc>>
    /\ UNCHANGED <<files, tieOrder, op, conn, result, runs, storeAtStart>>

\* conn.close(); print("Database written successfully:", ...)
RunClose ==
    /\ op = "run"
    /\ status = "running"
    /\ pc = Len(RunOrder) + 1
    /\ conn' = "closed"
    /\ status' = "returned"
    /\ result' = [kind |-> "written", rows |-> <<>>]
    /\ storeAfterFirst' = IF runs = 1 THEN store ELSE storeAfterFirst
    /\ UNCHANGED <<files, tieOrder, store, op, pc, err, runs, storeAtStart>>

\* The statements of run from the i-th on: the store they leave, the
\* statement that raised (one past the last when none did) and its error.
RECURSIVE RunFrom(_, _, _)
RunFrom(fs, st, i) ==
    IF i > Len(RunOrder) THEN [store |-> st, pc |-> i, error |-> NoError]
    ELSE LET r == preprocess(fs, RunOrder[i])
         IN  IF r.ok THEN RunFrom(fs, write_table(st, r.df, RunOrder[i]), i + 1)
             ELSE [store |-> st, pc |-> i, error |-> r.error]

\* CWPreprocessor.run as one step, from connect to close or to what it raises.
Run ==
    /\ status # "running"
    /\ runs < MaxRuns
    /\ LET end == RunFrom(files, store, 1)
       IN  /\ store' = end.store
           /\ pc' = end.pc
           /\ IF end.pc <= Len(RunOrder)
              THEN /\ status' = "raised"
                   /\ conn' = "open"
                   /\ err' = end.error
                   /\ result' = NoResult
              ELSE /\ status' = "returned"
                   /\ conn' = "closed"
                   /\ err' = NoError
                   /\ result' = [kind |-> "written", rows |-> <<>>]
    /\ op' = "run"
    /\ runs' = runs + 1
    /\ storeAtStart' = store
    /\ storeAfterFirst' = IF runs = 0 THEN store' ELSE storeAfterFirst
    /\ UNCHANGED <<files, tieOrder>>

-----------------------------------------------------------------------------
(* underperformingStudent.py                                               *)

formative_tables == <<"Test_1", "Test_2", "Test_3", "Test_4", "Mock_Test">>

\* A table name as text, for the order Python puts names in.
NameText(t) ==
    CASE t = "Test_1" -> <<"T", "e", "s", "t", "_", "1">>
      [] t = "Test_2" -> <<"T", "e", "s", "t", "_", "2">>
      [] t = "Test_3" -> <<"T", "e", "s", "t", "_", "3">>
      [] t = "Test_4" -> <<"T", "e", "s", "t", "_", "4">>
      [] t = "Mock_Test" -> <<"M", "o", "c", "k", "_", "T", "e", "s", "t">>
      [] t = "Sum_Test" -> <<"S", "u", "m", "_", "T", "e", "s", "t">>
      [] OTHER -> <<"S", "t", "u", "d", "e", "n", "t", "_", "R", "a", "t", "e">>

\* The query on a table raises when the table or one of the columns asked
\* for does not exist.
QueryFails(st, t, cols) ==
    \/ ~st[t].exists
    \/ ~({L(c) : c \in cols} \subseteq st[t].columns)

\* SELECT research_id, Grade FROM t, each row tagged with the table.
GradeRows(st, t) ==
    LET df == read_table(st, t)
    IN  Eager([i \in DOMAIN df.rows |->
            [research_id |-> df.rows[i].cells[L("research_id")],
             Grade |-> df.rows[i].cells[L("Grade")],
             Test |-> t]])

\* pd.concat(frames, ignore_index=True)
RECURSIVE Concat(_, _)
Concat(st, n) ==
    IF n = 0 THEN <<>>
    ELSE Concat(st, n - 1) \o GradeRows(st, formative_tables[n])

Reindexed(rows) ==
    Eager([i \in DOMAIN rows |->
        [index |-> i - 1, research_id |-> rows[i].research_id,
         Grade |-> rows[i].Grade, Test |-> rows[i].Test]])

\* df.dropna(subset=["research_id", "Grade"])
dropna(rows) ==
    SelectSeq(rows, LAMBDA r : r.research_id.k # "nan" /\ r.Grade.k # "nan")

RECURSIVE SumGrades(_)
SumGrades(rows) ==
    IF rows = <<>> THEN 0 ELSE rows[1].Grade.n + SumGrades(Tail(rows))

\* sort_values(["research_id", "Grade"]) alone: among equal grades the row
\* that comes first in the concatenation.
LowestOrder_untied(q, r) ==
    \/ CellLess(q.research_id, r.research_id)
    \/ /\ q.research_id = r.research_id
       /\ \/ q.Grade.n < r.Grade.n
          \/ (q.Grade.n = r.Grade.n /\ q.index < r.index)

\* sort_values(["research_id", "Grade", "Test"]): a stable sort on the
\* three keys in turn.
LowestOrder(q, r) ==
    \/ CellLess(q.research_id, r.research_id)
    \/ /\ q.research_id = r.research_id
       /\ \/ q.Grade.n < r.Grade.n
          \/ /\ q.Grade.n = r.Grade.n
             /\ \/ LexLess(NameText(q.Test), NameText(r.Test))
                \/ (q.Test = r.Test /\ q.index < r.index)

\* groupby("research_id").first(): the first row of each student.
FirstOf(sorted, id) ==
    sorted[CHOOSE p \in DOMAIN sorted :
               /\ sorted[p].research_id = id
               /\ \A q \in 1..(p - 1) : sorted[q].research_id # id]

\* df["Grade"] > 0: the row counts as an attempt.
IsAttempt(r) == r.Grade.n > 0

\* df_sum["Grade"] < sum_average, the mean being total / count.
BelowAverage(r, total, count) == r.Grade.n * count < total

\* The filter left out: every student below the mean is kept.
Engaged_any(r) == r.Attempts >= 0

\* The filter one attempt too low.
Engaged_two(r) == r.Attempts >= 2

\* df_result["Attempts"] >= 3
Engaged(r) == r.Attempts >= 3

\* The table find_underperforming_students prints: one row per student
\* that is left after the filter, lowest summative grade first.
underperforming(st) ==
    LET df_sum == dropna(Reindexed(GradeRows(st, "Sum_Test")))
        df_formative == dropna(Reindexed(Concat(st, Len(formative_tables))))
        df_attended == SelectSeq(df_formative, IsAttempt)
        Attempts(id) ==
            Cardinality({i \in DOMAIN df_attended : df_attended[i].research_id = id})
        sorted == SortRows(df_attended, LowestOrder)
        total == SumGrades(df_sum)
        below == SelectSeq(df_sum, LAMBDA r : BelowAverage(r, total, Len(df_sum)))
        ByGrade(q, r) == \/ q.Grade.n < r.Grade.n
                         \/ (q.Grade.n = r.Grade.n /\ TieBefore(q, r))
        df_under == SortRows(below, ByGrade)
        merged == [i \in DOMAIN df_under |->
                     LET id == df_under[i].research_id
                     IN  [research_id |-> id,
                          Summative_Grade |-> df_under[i].Grade,
                          Lowest_Formative_Grade |->
                              IF Attempts(id) > 0 THEN FirstOf(sorted, id).Grade
                              ELSE NaN,
                          Lowest_Formative_Test |->
                              IF Attempts(id) > 0 THEN FirstOf(sorted, id).Test
                              ELSE "NaN",
                          Attempts |-> Attempts(id)]]
    IN  SelectSeq(merged, Engaged)

\* lowf = df_result["Lowest_Formative_Grade"].fillna(0): the heights of the
\* lowest-formative bars of the chart.
lowf(rows) == Eager([p \in DOMAIN rows |-> fillna(rows[p].Lowest_Formative_Grade, 0)])

\* find_underperforming_students(db_path), the whole call.
FindUnderperformingStudents ==
    /\ status # "running"
    /\ op' = "find_underperforming_students"
    /\ LET failing == {t \in {"Sum_Test"} \cup Range(formative_tables) :
                          QueryFails(store, t, {"research_id", "Grade"})}
       IN  IF failing # {}
           THEN /\ status' = "raised"
                /\ conn' = "open"
                /\ err' = [kind |-> "DatabaseError",
                           table |-> IF "Sum_Test" \in failing THEN "Sum_Test"
                                     ELSE formative_tables[
                                              CHOOSE i \in DOMAIN formative_tables :
                                                 /\ formative_tables[i] \in failing
                                                 /\ \A j \in 1..(i - 1) :
                                                        formative_tables[j] \notin failing],
                           missing |-> <<>>]
                /\ result' = NoResult
           ELSE /\ status' = "returned"
                /\ conn' = "closed"
                /\ err' = NoError
                /\ result' = LET rows == underperforming(store)
                              IN  IF rows = <<>>
                                  THEN [kind |-> "none_found", rows |-> <<>>]
                                  ELSE [kind |-> "underperforming", rows |-> rows]
    /\ UNCHANGED <<files, tieOrder, store, pc, runs, storeAtStart, storeAfterFirst>>

-----------------------------------------------------------------------------
(* studentPerformance.py and testResults.py                                *)

\* The student ids the analyses are asked about: one that sits the tests
\* and one nobody has.
StudentIds == {Str(<<"a">>), Str(<<"z">>)}

\* col.startswith('Q'), over the column names of the model.
StartsWithQ(c) ==
    LET renames == {rename_map_test_1, rename_map_test_2, rename_map_test_3,
                    rename_map_test_4, rename_map_mock_test, rename_map_sum_test}
        items == UNION {{n \in DOMAIN m : m[n] \notin {"research_id", "Started_on",
                                                       "Time_taken", "Grade"}} :
                        m \in renames}
    IN  c.name \in items \cup UNION {{m[n] : n \in items \cap DOMAIN m} : m \in renames}

\* The tables student_performance is asked about.
TestNames == {"Test_2", "Student_Rate", "Sum_Test"}

RECURSIVE SumColumn(_, _)
SumColumn(rows, c) ==
    IF rows = <<>> THEN 0 ELSE rows[1].cells[c].n + SumColumn(Tail(rows), c)

\* The student's score in each question column, and the sum and the count
\* the column's mean is made of: relative = absolute - total / count.
performance(df, df_student) ==
    LET question_cols == {c \in df.columns : StartsWithQ(c)}
    IN  [c \in question_cols |->
            [absolute |-> df_student[1].cells[c].n,
             total |-> SumColumn(df.rows, c),
             count |-> Len(df.rows)]]

\* student_performance(db_path, student_id, test_name), the whole call.
StudentPerformance(student_id, test_name) ==
    /\ status # "running"
    /\ op' = "student_performance"
    /\ IF QueryFails(store, test_name, {})
       THEN /\ status' = "raised"
            /\ conn' = "open"
            /\ err' = [kind |-> "DatabaseError", table |-> test_name, missing |-> <<>>]
            /\ result' = NoResult
       ELSE IF L("research_id") \notin store[test_name].columns
       THEN /\ status' = "raised"
            /\ conn' = "open"
            /\ err' = [kind |-> "KeyError", table |-> test_name,
                       missing |-> <<"research_id">>]
            /\ result' = NoResult
       ELSE LET df_test == read_table(store, test_name)
                df_student == SelectSeq(df_test.rows,
                                  LAMBDA r : r.cells[L("research_id")] = student_id)
            IN  /\ status' = "returned"
                /\ conn' = "closed"
                /\ err' = NoError
                /\ result' = IF df_student = <<>>
                              THEN [kind |-> "not_found", rows |-> <<>>]
                              ELSE [kind |-> "performance",
                                    rows |-> performance(df_test, df_student)]
    /\ UNCHANGED <<files, tieOrder, store, pc, runs, storeAtStart, storeAfterFirst>>

\* The assessments with a row for the student, in the order of their names,
\* each with the Grade of the first such row.
results_of(st, student_id) ==
    LET tables == {t \in Pipelined : st[t].exists}
        found == {t \in tables :
                     \E i \in DOMAIN st[t].rows :
                         st[t].rows[i][L("research_id")] = student_id}
        first(t) == st[t].rows[CHOOSE i \in DOMAIN st[t].rows :
                        /\ st[t].rows[i][L("research_id")] = student_id
                        /\ \A j \in 1..(i - 1) :
                               st[t].rows[j][L("research_id")] # student_id]
        rank(t) == Cardinality({u \in found : LexLess(NameText(u), NameText(t))})
    IN  [p \in 1..Cardinality(found) |->
            LET t == CHOOSE u \in found : rank(u) = p - 1
            IN  [Assessment |-> t, Grade |-> first(t)[L("Grade")]]]

\* fetch_all_results(db_path, student_id), the whole call: the connection
\* is closed before the results are looked at.
FetchAllResults(student_id) ==
    /\ status # "running"
    /\ op' = "fetch_all_results"
    /\ LET failing == {t \in Pipelined :
                          store[t].exists
                          /\ QueryFails(store, t, {"research_id", "Grade"})}
       IN  IF failing # {}
           THEN /\ status' = "raised"
                /\ conn' = "open"
                /\ err' = [kind |-> "DatabaseError",
                           table |-> CHOOSE t \in failing :
                                        \A u \in failing \ {t} :
                                            LexLess(NameText(t), NameText(u)),
                           missing |-> <<>>]
                /\ result' = NoResult
           ELSE /\ status' = "returned"
                /\ conn' = "closed"
                /\ err' = NoError
                /\ result' = LET results == results_of(store, student_id)
                              IN  IF results = <<>>
                                  THEN [kind |-> "no_results", rows |-> <<>>]
                                  ELSE [kind |-> "results", rows |-> results]
    /\ UNCHANGED <<files, tieOrder, store, pc, runs, storeAtStart, storeAfterFirst>>

-----------------------------------------------------------------------------
(* The raw files.                                                          *)

\* The denominator the file's grade column is out of.
GradeTotal(t) ==
    CASE t = "Test_1" -> 600
      [] t = "Test_2" -> 700
      [] t = "Test_3" -> 600
      [] t = "Test_4" -> 1000
      [] OTHER -> 10000

GradeColumn(t) ==
    CASE t = "Test_1" -> "Grade/600"
      [] t = "Test_2" -> "Grade/700"
      [] t = "Test_3" -> "Grade/600"
      [] t = "Test_4" -> "Grade/1000"
      [] OTHER -> "Grade/10000"

\* The one question column the model's files carry, and its name once renamed.
ItemColumn(t) ==
    CASE t = "Test_1" -> "Q 1 /100"
      [] t = "Test_2" -> "Q 4 /200"
      [] t = "Test_3" -> "Q 6 /100"
      [] t = "Test_4" -> "Q 2 /500"
      [] t = "Mock_Test" -> "Q 8 /2000"
      [] OTHER -> "Q 13 /600"

\* The decimal text of n >= 0.
RECURSIVE ToText(_)
ToText(n) ==
    IF n < 10 THEN <<Digits[n + 1]>>
    ELSE Append(ToText(n \div 10), Digits[(n % 10) + 1])

\* A header with the metadata columns and stray blanks around two names.
FullHeader(t) ==
    <<L("research id"), L("Started on"), L("State"), L("Time taken"),
      Padded(0, GradeColumn(t), 1), Padded(1, ItemColumn(t), 0)>>

BareHeader(t) == <<L("research id"), L(GradeColumn(t)), L(ItemColumn(t))>>

Without(header, names) == SelectSeq(header, LAMBDA c : c.name \notin names)

\* One line of a file: the id, the grade and the item score under their
\* columns, a filler under every other column.
Line(t, header, id, grade, item) ==
    Eager([j \in DOMAIN header |->
        IF header[j].name = "research id" THEN id
        ELSE IF header[j].name = GradeColumn(t) THEN grade
        ELSE IF header[j].name = ItemColumn(t) THEN item
        ELSE <<"1">>])

File(t, header, lines) ==
    [header |-> header,
     rows |-> Eager([i \in DOMAIN lines |->
                 Line(t, header, lines[i][1], lines[i][2], lines[i][3])])]

\* The raw grade that scales to the given level out of 10000.
Raw(t, level) == ToText((level * GradeTotal(t)) \div 10000)

\* Two attempts of student a with one grade, one attempt of b whose item is
\* the placeholder, and the export's closing line, which has no id.
DefaultLines(t) ==
    <<<<<<"a">>, Raw(t, 2000), <<"1">>>>,
      <<<<"b">>, Raw(t, 5000), <<"-">>>>,
      <<<<"a">>, Raw(t, 2000), <<>>>>,
      <<<<>>, Raw(t, 4000), <<"1">>>>>>

RateFile ==
    [header |-> <<L("research id"), Padded(0, "Rate", 1)>>,
     rows |-> <<<<<<"a">>, <<"1">>>>, <<<<"b">>, <<>>>>>>]

\* The files of an earlier term, and the store a run on them left.
OldFiles ==
    [t \in TableNames |->
        IF t = "Student_Rate" THEN RateFile
        ELSE File(t, BareHeader(t), <<<<<<"z">>, Raw(t, 1000), <<"0">>>>>>)]

RunAll(fs) == Eager([t \in TableNames |-> Stored(preprocess(fs, t).df)])

OldStore == RunAll(OldFiles)

\* The header of one file: whole, or short of a required column.
HeaderOf(t, meta, kind) ==
    LET whole == IF meta THEN FullHeader(t) ELSE BareHeader(t)
    IN  CASE kind = "no_grade" -> Without(whole, {GradeColumn(t)})
          [] kind = "no_id" -> Without(whole, {"research id"})
          [] kind = "neither" -> Without(whole, {"research id", GradeColumn(t)})
          [] OTHER -> whole

-----------------------------------------------------------------------------
(* The program: a normalisation run or an analysis, one call at a time.    *)

Idle ==
    /\ op = "none"
    /\ status = "idle"
    /\ pc = 0
    /\ conn = "none"
    /\ err = NoError
    /\ result = NoResult
    /\ runs = 0
    /\ storeAtStart = store
    /\ storeAfterFirst = store

\* Seven files, at most one of them short of a required column, on a new
\* store or on the store of an earlier term.
Init ==
    /\ \E bad \in Pipelined \cup {"none"}, meta \in BOOLEAN,
          kind \in {"no_grade", "no_id", "neither"} :
          files = [t \in TableNames |->
                     IF t = "Student_Rate" THEN RateFile
                     ELSE File(t, HeaderOf(t, meta, IF t = bad THEN kind ELSE "ok"),
                               DefaultLines(t))]
    /\ tieOrder \in {"first", "last"}
    /\ store \in {EmptyStore, OldStore}
    /\ Idle

Next ==
    \/ RunConnect
    \/ RunWrite
    \/ RunClose
    \/ \E id \in StudentIds, t \in TestNames : StudentPerformance(id, t)
    \/ \E id \in StudentIds : FetchAllResults(id)
    \/ FindUnderperformingStudents

Spec == Init /\ [][Next]_vars

-----------------------------------------------------------------------------
(* One pipeline on one file: every short file of attempts.                 *)

\* The attempts a file is made of: student, grade cell, item cell.  The
\* grade cells are numbers (one negative), the placeholder, a word and the
\* empty cell; two attempts of a share a grade and differ in the item.
AttemptKinds ==
    {<<<<"a">>, <<"4", "8", "0">>, <<"1">>>>,
     <<<<"a">>, <<"4", "8", "0">>, <<"-">>>>,
     <<<<"a">>, <<"5", "2">>, <<>>>>,
     <<<<"a">>, <<"-">>, <<"a", "b">>>>,
     <<<<"a">>, <<>>, <<"1">>>>,
     <<<<"a">>, <<"-", "5">>, <<"1">>>>,
     <<<<"b">>, <<"a", "b">>, <<"1">>>>}

AttemptFiles(t) ==
    {File(t, BareHeader(t), lines) :
        lines \in UNION {[1..n -> AttemptKinds] : n \in 1..MaxRows}}

EmptyFile(t) == File(t, BareHeader(t), <<>>)

InitNormalise ==
    /\ \E t \in Pipelined :
          \E f \in AttemptFiles(t) :
              files = [u \in TableNames |->
                         IF u = "Student_Rate" THEN RateFile
                         ELSE IF u = t THEN f ELSE EmptyFile(u)]
    /\ tieOrder \in {"first", "last"}
    /\ store = EmptyStore
    /\ Idle

\* The pipelines are run once on the file.
NextNormalise == runs = 0 /\ Run

SpecNormalise == InitNormalise /\ [][NextNormalise]_vars

-----------------------------------------------------------------------------
(* The analysis of a cohort: every pattern of formative grades of one      *)
(* student beside a second one.                                            *)

\* The grade levels, out of 10000, a cohort's files are written with.
Levels == {0, 2000, 5000}

\* What a student may have in one assessment: no line, or a line with a grade.
Sittings == {<<>>} \cup {<<l>> : l \in Levels}

\* A cohort's file of one assessment: a's line if a sat it, b's line, and
\* the export's closing line without an id.
CohortFile(t, a, b) ==
    File(t, BareHeader(t),
         [i \in DOMAIN a |-> <<<<"a">>, Raw(t, a[i]), <<"1">>>>]
         \o <<<<<<"b">>, Raw(t, b), <<"1">>>>, <<<<>>, Raw(t, 9000), <<"1">>>>>>)

InitAnalysis ==
    /\ \E fa \in [{"Test_1", "Test_2", "Mock_Test"} -> Sittings],
          fc \in [{"Test_3", "Test_4"} -> {<<0>>, <<5000>>}],
          fb \in {0, 5000}, sa \in {2000, 5000}, sb \in {2000, 5000} :
          files = [t \in TableNames |->
                     IF t = "Student_Rate" THEN RateFile
                     ELSE IF t = "Sum_Test" THEN CohortFile(t, <<sa>>, sb)
                     ELSE IF t \in DOMAIN fa THEN CohortFile(t, fa[t], fb)
                     ELSE CohortFile(t, fc[t], fb)]
    /\ tieOrder = "first"
    /\ store = EmptyStore
    /\ Idle

NextAnalysis == Run \/ FindUnderperformingStudents

SpecAnalysis == InitAnalysis /\ [][NextAnalysis]_vars


-----------------------------------------------------------------------------
(* The raw files as text, and the rows of the tables made from them.       *)

\* The rename_map of the pipeline that makes table t.
rename_map_of(t) ==
    CASE t = "Test_1" -> rename_map_test_1
      [] t = "Test_2" -> rename_map_test_2
      [] t = "Test_3" -> rename_map_test_3
      [] t = "Test_4" -> rename_map_test_4
      [] t = "Mock_Test" -> rename_map_mock_test
      [] OTHER -> rename_map_sum_test

\* The position of a column in the header of a raw file.
ColumnAt(csv, name) == CHOOSE j \in DOMAIN csv.header : csv.header[j].name = name

\* The text of line i of the raw file of t under its id, grade and item column.
RawId(t, i) == files[t].rows[i][ColumnAt(files[t], "research id")]

RawGrade(t, i) == files[t].rows[i][ColumnAt(files[t], GradeColumn(t))]

RawItem(t, i) == files[t].rows[i][ColumnAt(files[t], ItemColumn(t))]

\* The students of a raw file, and the lines that are attempts of one.
Students(t) == {RawId(t, i) : i \in DOMAIN files[t].rows} \ {<<>>}

AttemptsOf(t, id) == {i \in DOMAIN files[t].rows : RawId(t, i) = id}

\* The rows of table t that carry the student's id.
StoredRowsOf(t, id) ==
    {k \in DOMAIN store[t].rows : store[t].rows[k][L("research_id")] = Str(id)}

\* The item column of table t under the name the pipeline gives it.
ItemLabel(t) == L(rename_map_of(t)[ItemColumn(t)])

\* The line of the raw file that row k of table t was made from: the index
\* label the row carries through keep_best_attempt, counted from 1.
Survivor(t, k) ==
    keep_best_attempt(Renamed(files[t], rename_map_of(t))).rows[k].index + 1

\* A run of the pipelines has ended, and without raising.
RunEnded == op = "run" /\ status \in {"returned", "raised"}

RunReturned == op = "run" /\ status = "returned"

-----------------------------------------------------------------------------
(* C1: the attempt that is kept.                                           *)

\* Every attempt of the student has a number for its raw grade.
NumericAttempts(t, id) == \A i \in AttemptsOf(t, id) : IsNumber(RawGrade(t, i))

\* The attempt C1 says is kept: the greatest raw grade, on a tie the one
\* that comes first in the file.
BestAttempt(t, id) ==
    CHOOSE i \in AttemptsOf(t, id) :
        \A j \in AttemptsOf(t, id) :
            \/ ParseNumber(RawGrade(t, j)) < ParseNumber(RawGrade(t, i))
            \/ (ParseNumber(RawGrade(t, j)) = ParseNumber(RawGrade(t, i)) /\ i <= j)

\* Row k of table t is what the pipeline makes of line i: its grade scaled,
\* its item zero exactly when the line's item is no number or is zero.
MadeFrom(t, k, i) ==
    /\ store[t].rows[k][L("Grade")] =
           Num(Round(ParseNumber(RawGrade(t, i)) * 10000, GradeTotal(t)))
    /\ (store[t].rows[k][ItemLabel(t)] = Num(0))
           <=> (~IsNumber(RawItem(t, i)) \/ ParseNumber(RawItem(t, i)) = 0)

\* C1 as the specification states it: after a run, every student of a raw
\* file has exactly one row in the table; when the student's raw grades are
\* numbers the row is the attempt with the greatest raw grade, the first in
\* file order among equal ones; and the rows of two students stand in the
\* order of the attempts kept.  Stated for the builds whose sort leaves equal
\* grades in file order, where the tie rule has a chance to hold.
C1_BestAttemptKept ==
    (RunReturned /\ tieOrder = "first") =>
        \A t \in Pipelined :
            /\ \A id \in Students(t) : Cardinality(StoredRowsOf(t, id)) = 1
            /\ \A id \in Students(t) :
                   NumericAttempts(t, id) =>
                       \A k \in StoredRowsOf(t, id) : MadeFrom(t, k, BestAttempt(t, id))
            /\ \A id1, id2 \in Students(t) :
                   (\A i \in AttemptsOf(t, id1), j \in AttemptsOf(t, id2) : i < j) =>
                       \A k1 \in StoredRowsOf(t, id1), k2 \in StoredRowsOf(t, id2) :
                           k1 < k2

-----------------------------------------------------------------------------
(* C7: cells that are not numbers.                                         *)

\* C7: a run over files whose cells are numbers, the placeholder "-", words
\* or empty never raises, and in every row of every table the grade and the
\* item is 0 where the raw line it was made from has no number.
C7_NonNumericBecomesZero ==
    RunEnded =>
        /\ status = "returned"
        /\ \A t \in Pipelined :
               \A k \in DOMAIN store[t].rows :
                   /\ ~IsNumber(RawGrade(t, Survivor(t, k))) =>
                          store[t].rows[k][L("Grade")] = Num(0)
                   /\ ~IsNumber(RawItem(t, Survivor(t, k))) =>
                          store[t].rows[k][ItemLabel(t)] = Num(0)

\* A student with several attempts whose kept attempt has the placeholder for
\* its grade, stored as 0; and a word for an item, stored as 0.
C7_Witness ==
    /\ RunReturned
    /\ \E t \in Pipelined :
           \E k \in DOMAIN store[t].rows :
               /\ Cardinality(AttemptsOf(t, RawId(t, Survivor(t, k)))) >= 2
               /\ RawGrade(t, Survivor(t, k)) = <<"-">>
               /\ RawItem(t, Survivor(t, k)) = <<"a", "b">>
               /\ store[t].rows[k][L("Grade")] = Num(0)
               /\ store[t].rows[k][ItemLabel(t)] = Num(0)

-----------------------------------------------------------------------------
(* C8: the scale of the stored grade.                                      *)

\* s is the integer nearest to a / b, b > 0.
Nearest(s, a, b) ==
    LET d == IF s * b >= a THEN s * b - a ELSE a - s * b
    IN  2 * d <= b

\* C8: in every row of a table whose raw grade g is a number, the stored
\* grade is the integer nearest to g * 10000 / D, D the denominator of the
\* assessment (600, 700, 600, 1000, 10000, 10000), and is not negative when
\* g is not.
C8_GradeOutOf10000 ==
    RunReturned =>
        \A t \in Pipelined :
            \A k \in DOMAIN store[t].rows :
                LET g == RawGrade(t, Survivor(t, k))
                    s == store[t].rows[k][L("Grade")]
                IN  IsNumber(g) =>
                        /\ s.k = "num"
                        /\ s.n \in Int
                        /\ Nearest(s.n, ParseNumber(g) * 10000, GradeTotal(t))
                        /\ (ParseNumber(g) >= 0 => s.n >= 0)

\* A grade out of 700 that the scale does not hit exactly, rounded, and not
\* negative.
C8_Witness ==
    /\ RunReturned
    /\ \E k \in DOMAIN store["Test_2"].rows :
           LET g == RawGrade("Test_2", Survivor("Test_2", k))
               s == store["Test_2"].rows[k][L("Grade")]
           IN  /\ IsNumber(g)
               /\ ParseNumber(g) > 0
               /\ s.n * 700 # ParseNumber(g) * 10000
               /\ s.n > 0

-----------------------------------------------------------------------------
(* C2 and C3: the students find_underperforming_students reports.          *)

FindReturned == op = "find_underperforming_students" /\ status = "returned"

\* The rows of Sum_Test that belong to a student: the query's dropna leaves
\* out a row without an id.
Cohort ==
    {k \in DOMAIN store["Sum_Test"].rows :
        store["Sum_Test"].rows[k][L("research_id")].k # "nan"}

RECURSIVE GradeSum(_)
GradeSum(S) ==
    IF S = {} THEN 0
    ELSE LET k == CHOOSE k \in S : TRUE
         IN  store["Sum_Test"].rows[k][L("Grade")].n + GradeSum(S \ {k})

\* The student's Sum_Test grade is strictly below the mean of the cohort's.
BelowMean(id) ==
    \E k \in Cohort :
        /\ store["Sum_Test"].rows[k][L("research_id")] = id
        /\ store["Sum_Test"].rows[k][L("Grade")].n * Cardinality(Cohort)
               < GradeSum(Cohort)

FormativeTests == {"Test_1", "Test_2", "Test_3", "Test_4", "Mock_Test"}

\* The student's grades above 0 in one formative table.
PositiveGrades(id, t) ==
    {store[t].rows[k][L("Grade")].n :
        k \in {j \in DOMAIN store[t].rows :
                  /\ store[t].rows[j][L("research_id")] = id
                  /\ store[t].rows[j][L("Grade")].n > 0}}

\* The number of formative rows of the student with a grade above 0; a
\* table holds one row of a student at most.
PositiveRows(id) == Cardinality({t \in FormativeTests : PositiveGrades(id, t) # {}})

KnownStudents == {Str(<<"a">>), Str(<<"b">>)}

Reported(id) == \E p \in DOMAIN result.rows : result.rows[p].research_id = id

\* C2: a student is reported exactly when the student's Sum_Test grade is
\* strictly below the mean of the Sum_Test grades and the student has at
\* least three formative rows with a grade above 0; a student at or above
\* the mean, or with two such rows, is not reported.
C2_ReportedIffBelowMeanAndThreeAttempts ==
    FindReturned =>
        /\ \A id \in KnownStudents :
               Reported(id) <=> (BelowMean(id) /\ PositiveRows(id) >= 3)
        /\ \A p \in DOMAIN result.rows : result.rows[p].research_id \in KnownStudents
        /\ (result.kind = "none_found") <=> (\A id \in KnownStudents : ~Reported(id))

\* Student a reported on exactly three rows above 0, student b not reported.
C2_Witness ==
    /\ FindReturned
    /\ result.kind = "underperforming"
    /\ PositiveRows(Str(<<"a">>)) = 3
    /\ Reported(Str(<<"a">>))
    /\ ~Reported(Str(<<"b">>))

\* The formative tables by name, in alphabetical order.
AlphabeticalTests == <<"Mock_Test", "Test_1", "Test_2", "Test_3", "Test_4">>

\* C3: the lowest formative grade reported for a student is the least of the
\* student's formative grades above 0, and the test reported with it is the
\* alphabetically earliest of the tests where the student has that grade.
C3_WeakestFormative ==
    FindReturned =>
        \A p \in DOMAIN result.rows :
            LET r == result.rows[p]
                has(t) == r.Lowest_Formative_Grade.n \in PositiveGrades(r.research_id, t)
            IN  /\ r.Lowest_Formative_Grade.k = "num"
                /\ \E t \in FormativeTests : has(t)
                /\ \A t \in FormativeTests :
                       \A g \in PositiveGrades(r.research_id, t) :
                           r.Lowest_Formative_Grade.n <= g
                /\ \E i \in DOMAIN AlphabeticalTests :
                       /\ r.Lowest_Formative_Test = AlphabeticalTests[i]
                       /\ has(AlphabeticalTests[i])
                       /\ \A j \in 1..(i - 1) : ~has(AlphabeticalTests[j])

\* A reported student whose least grade above 0 is in Test_1 and in Test_2
\* alike, and not in Mock_Test: Test_1 is the test reported.
C3_Witness ==
    /\ FindReturned
    /\ \E p \in DOMAIN result.rows :
           LET r == result.rows[p]
               g == r.Lowest_Formative_Grade.n
           IN  /\ g \in PositiveGrades(r.research_id, "Test_1")
               /\ g \in PositiveGrades(r.research_id, "Test_2")
               /\ g \notin PositiveGrades(r.research_id, "Mock_Test")
               /\ r.Lowest_Formative_Test = "Test_1"

-----------------------------------------------------------------------------
(* C4, C5, C6, C9 and C10: what a run leaves in the store.                 *)

RunRaised == op = "run" /\ status = "raised"

\* The raw file of t has the column, under its raw or its renamed name.
HasColumn(t, raw, renamed) ==
    \E j \in DOMAIN files[t].header : files[t].header[j].name \in {raw, renamed}

\* The required columns the raw file of t cannot give, in the order the
\* check asks for them.
MissingColumns(t) ==
    SelectSeq(<<"research_id", "Grade">>,
              LAMBDA c : IF c = "research_id"
                         THEN ~HasColumn(t, "research id", "research_id")
                         ELSE ~HasColumn(t, GradeColumn(t), "Grade"))

WellFormed(t) == t \notin Pipelined \/ MissingColumns(t) = <<>>

\* The table of t holds what this run's normalisation of the file of t gives.
WrittenAnew(t) == store[t] = Stored(preprocess(files, t).df)

\* The table of t is as the run found it.
Untouched(t) == store[t] = storeAtStart[t]

\* C4: a run raises exactly when a file lacks research_id or Grade after
\* renaming; the error names the table of that file and the columns it
\* lacks; that table is as it was before the run, and every table the run
\* wrote before it holds its new content.
C4_SchemaErrorNamesTableAndKeepsEarlierWrites ==
    /\ RunReturned => \A t \in TableNames : WellFormed(t)
    /\ RunRaised =>
           /\ err.kind = "KeyError"
           /\ err.table = RunOrder[pc]
           /\ err.missing # <<>>
           /\ err.missing = MissingColumns(RunOrder[pc])
           /\ Untouched(RunOrder[pc])
           /\ \A i \in 1..(pc - 1) : WrittenAnew(RunOrder[i])

\* A run on the store of an earlier term that raises for a file lacking both
\* columns, after it has replaced the first table: the failing table still
\* holds the earlier term's rows.
C4_Witness ==
    /\ RunRaised
    /\ pc >= 2
    /\ err.missing = <<"research_id", "Grade">>
    /\ store[RunOrder[pc]].exists
    /\ Untouched(RunOrder[pc])
    /\ WrittenAnew(RunOrder[1])
    /\ ~Untouched(RunOrder[1])

\* C5 as the specification states it: when a run has ended and one file
\* lacked a required column, the table of every other assessment, those
\* after it in the run order included, has been written by the run.
C5_OnlyTheMalformedAssessmentIsSkipped ==
    RunEnded => \A t \in TableNames : WellFormed(t) => WrittenAnew(t)

\* C5 as the code has it: a schema error ends the run.  The table of the
\* malformed assessment and the tables of all that follow it in the run
\* order are as the run found them; the tables before it are written.
C5_SchemaErrorEndsTheRun ==
    RunRaised =>
        /\ ~WellFormed(RunOrder[pc])
        /\ \A i \in 1..(pc - 1) : WellFormed(RunOrder[i]) /\ WrittenAnew(RunOrder[i])
        /\ \A i \in pc..Len(RunOrder) : Untouched(RunOrder[i])

\* A run on a new store that has raised: an assessment after the malformed
\* one has a well-formed file and no table.
C5_Witness ==
    /\ RunRaised
    /\ \E i \in (pc + 1)..Len(RunOrder) :
           /\ RunOrder[i] \in Pipelined
           /\ WellFormed(RunOrder[i])
           /\ ~store[RunOrder[i]].exists
           /\ ~WrittenAnew(RunOrder[i])

\* C6 as the specification states it: no call ends, by returning or by
\* raising, with its connection still open.
C6_ConnectionClosedOnEveryExit ==
    status \in {"returned", "raised"} => conn = "closed"

\* The tables of the rename/scale pipelines this run has written so far.
WrittenSoFar == {RunOrder[i] : i \in 1..(pc - 1)} \cap Pipelined

C10_RunIsIdempotent ==
    op = "run" =>
        /\ \A i \in DOMAIN RunOrder :
               IF i < pc THEN WrittenAnew(RunOrder[i]) ELSE Untouched(RunOrder[i])
        /\ status = "returned" => \A t \in TableNames : store[t].exists
        /\ (RunEnded /\ runs >= 2) => store = storeAfterFirst

\* A second run that has returned: it started on the tables of the first
\* and left them as they were, Test_1 with three rows and no more.
C10_Witness ==
    /\ RunReturned
    /\ runs = 2
    /\ storeAtStart = storeAfterFirst
    /\ store = storeAfterFirst
    /\ \A t \in TableNames : store[t].exists
    /\ Len(store["Test_1"].rows) = 3

-----------------------------------------------------------------------------
(* C11: the weakest formative record of a reported student.                *)

\* C11: every student find_underperforming_students reports has a weakest
\* formative record: a lowest formative grade that is a number above 0 and
\* a lowest formative test that is one of the five formative tables.  The
\* record left empty by the left join never passes the Attempts >= 3
\* filter, so the fillna(0) of the chart changes no bar.
C11_ReportedStudentHasWeakestRecord ==
    FindReturned =>
        /\ \A p \in DOMAIN result.rows :
               /\ result.rows[p].Attempts >= 3
               /\ result.rows[p].Lowest_Formative_Grade.k = "num"
               /\ result.rows[p].Lowest_Formative_Grade.n > 0
               /\ result.rows[p].Lowest_Formative_Test \in FormativeTests
               /\ lowf(result.rows)[p] = result.rows[p].Lowest_Formative_Grade
        /\ \A id \in KnownStudents :
               (\A t \in FormativeTests : PositiveGrades(id, t) = {}) => ~Reported(id)

\* Both outcomes of the join in a call that returned: student a, with rows
\* above 0 and a row at 0 that does not count, is reported with a record;
\* student b has no formative row above 0 and is not reported.
C11_Witness ==
    /\ FindReturned
    /\ \E p \in DOMAIN result.rows :
           /\ result.rows[p].research_id = Str(<<"a">>)
           /\ result.rows[p].Lowest_Formative_Grade.n > 0
           /\ result.rows[p].Lowest_Formative_Test \in FormativeTests
    /\ \E t \in FormativeTests :
           \E k \in DOMAIN store[t].rows :
               /\ store[t].rows[k][L("research_id")] = Str(<<"a">>)
               /\ store[t].rows[k][L("Grade")] = Num(0)
    /\ \A t \in FormativeTests : PositiveGrades(Str(<<"b">>), t) = {}

=============================================================================
